---- MODULE Spec2Model ----
(***************************************************************************)
(* Model of the blockchain explorer MCP server: module initialisation of   *)
(* src/server.ts (credential resolution, default network, available        *)
(* networks), the CallToolRequestSchema handler, and the EtherscanService   *)
(* class (services/etherscanService.ts) it drives.                         *)
(*                                                                         *)
(* A tool call or a direct service call occupies a slot of `calls` and     *)
(* moves through  idle -> svc -> await -> svcdone -> done -> idle : the    *)
(* handler's parse and network check, the service method up to its first   *)
(* await (the outbound request), the upstream response, and the handler's  *)
(* rendering of the result.                                                *)
(***************************************************************************)
EXTENDS Integers, Sequences, FiniteSets, TLC

VARIABLES
    env,                \* process.env after dotenv's config()
    phase,              \* "boot" | "running" | "failed" (module initialisation threw)
    apiKeys,            \* server.ts: const apiKeys
    defaultNetwork,     \* server.ts: const defaultNetwork
    availableNetworks,  \* server.ts: const availableNetworks
    etherscanService,   \* the EtherscanService instance (its four private fields)
    calls               \* one record per invocation slot

vars == <<env, phase, apiKeys, defaultNetwork, availableNetworks, etherscanService, calls>>

-----------------------------------------------------------------------------
(* Bounds of the model *)

MaxRows == 2      \* longest upstream result array
MaxLimit == 2     \* largest `limit` argument tried (the schema allows up to 100)

-----------------------------------------------------------------------------
(* JavaScript values *)

Undefined == "undefined"          \* an absent value (undefined)

Truthy(s) == s # Undefined /\ s # ""

\* a || b on strings
Or(a, b) == IF Truthy(a) THEN a ELSE b

\* an optional number is <<>> (undefined) or <<n>>
NoNumber == <<>>

Min(a, b) == IF a <= b THEN a ELSE b

\* Array.prototype.slice(0, n) for n >= 0
Slice0(seq, n) == SubSeq(seq, 1, Min(n, Len(seq)))

-----------------------------------------------------------------------------
(* Network Registry *)

NetworkType == {"ethereum", "sonic", "base"}

\* Object.keys / Object.entries order of the three-network records
NetworkOrder == <<"ethereum", "sonic", "base">>

NETWORK_CONFIGS ==
    [n \in NetworkType |->
        CASE n = "ethereum" -> [apiUrl |-> "https://api.etherscan.io/api",
                                networkName |-> "mainnet",
                                currencySymbol |-> "ETH"]
          [] n = "sonic"    -> [apiUrl |-> "https://explorer.sonic.onerpc.com/api",
                                networkName |-> "sonic",
                                currencySymbol |-> "SONIC"]
          [] n = "base"     -> [apiUrl |-> "https://api.basescan.org/api",
                                networkName |-> "base",
                                currencySymbol |-> "ETH"]]

-----------------------------------------------------------------------------
(* Module initialisation of server.ts *)

\* The environments tried: each key variable unset or set; the default network
\* unset, one of the three identifiers, or a string outside the set (the value
\* is cast to NetworkType without a check).
Environments ==
    [ETHEREUM_API_KEY : {Undefined, "eth-key"},
     SONIC_API_KEY : {Undefined, "sonic-key"},
     BASE_API_KEY : {Undefined, "base-key"},
     ETHERSCAN_API_KEY : {Undefined, "shared-key"},
     DEFAULT_EXPLORER_NETWORK : {Undefined, "ethereum", "sonic", "base", "polygon"}]

EnvKeyName(n) ==
    CASE n = "ethereum" -> "ETHEREUM_API_KEY"
      [] n = "sonic"    -> "SONIC_API_KEY"
      [] n = "base"     -> "BASE_API_KEY"

\* a variant without the shared fallback key
NetworkApiKey_NoFallback(e, n) == e[EnvKeyName(n)]

\* const <n>ApiKey = process.env.<N>_API_KEY || process.env.ETHERSCAN_API_KEY
NetworkApiKey(e, n) == Or(e[EnvKeyName(n)], e.ETHERSCAN_API_KEY)

\* const apiKeys = { ethereum: ethereumApiKey || '', ... }
ApiKeysOf(e) == [n \in NetworkType |-> Or(NetworkApiKey(e, n), "")]

\* if (!ethereumApiKey && !sonicApiKey && !baseApiKey) throw
NoApiKey(e) == \A n \in NetworkType : ~Truthy(NetworkApiKey(e, n))

\* process.env.DEFAULT_EXPLORER_NETWORK || 'ethereum'
DefaultNetworkOf(e) == Or(e.DEFAULT_EXPLORER_NETWORK, "ethereum")

\* Object.entries(apiKeys).filter(([_, key]) => key !== '').map(([network]) => network)
\* a variant that lists every network of the registry
AvailableNetworksOf_Unfiltered(keys) == NetworkOrder

AvailableNetworksOf(keys) == SelectSeq(NetworkOrder, LAMBDA n : keys[n] # "")

\* EtherscanService constructor: a provider for every network with a truthy key
ProvidersOf(keys) ==
    [n \in {m \in NetworkType : Truthy(keys[m])} |->
        [networkName |-> NETWORK_CONFIGS[n].networkName, apiKey |-> keys[n]]]

NewEtherscanService(keys, dflt) ==
    [apiKeys |-> keys,
     defaultNetwork |-> dflt,
     networkConfigs |-> NETWORK_CONFIGS,
     providers |-> ProvidersOf(keys)]

\* the fields before the constructor has run
NoService ==
    [apiKeys |-> [n \in NetworkType |-> ""],
     defaultNetwork |-> Undefined,
     networkConfigs |-> NETWORK_CONFIGS,
     providers |-> << >>]

-----------------------------------------------------------------------------
(* The address / unit-conversion library (ethers) at its interface *)

LowerAddress == "0xd8da6bf26964af9d7eed9e03e53415d37aa96045"
ChecksumAddress == "0xd8dA6BF26964aF9D7eEd9e03E53415D37aA96045"
BadChecksumAddress == "0xD8da6bf26964af9d7eed9e03e53415d37aa96045"
MalformedAddress == "0x123"

Addresses == {LowerAddress, ChecksumAddress, BadChecksumAddress, MalformedAddress}

\* z.string().regex(/^0x[a-fA-F0-9]{40}$/): 40 hex digits of either case
MatchesAddressPattern(a) == a \in {LowerAddress, ChecksumAddress, BadChecksumAddress}

\* ethers.getAddress: the checksummed form of an all-lowercase or correctly
\* checksummed address; throws on a wrong length or a wrong mixed-case checksum
GetAddress(a) ==
    IF a \in {LowerAddress, ChecksumAddress}
    THEN [ok |-> TRUE, value |-> ChecksumAddress, message |-> ""]
    ELSE [ok |-> FALSE, value |-> Undefined, message |-> "invalid address"]

\* Upstream numeric fields are text: a sequence of one-character strings
\* (<< >> is the empty or the absent field).
Digit == [c \in {"0", "1", "2", "3", "4", "5", "6", "7", "8", "9"} |->
            CASE c = "0" -> 0 [] c = "1" -> 1 [] c = "2" -> 2 [] c = "3" -> 3
              [] c = "4" -> 4 [] c = "5" -> 5 [] c = "6" -> 6 [] c = "7" -> 7
              [] c = "8" -> 8 [] c = "9" -> 9]

IsDigit(c) == c \in DOMAIN Digit

RECURSIVE DigitsValue(_)
DigitsValue(chars) ==
    IF chars = << >> THEN 0
    ELSE 10 * DigitsValue(SubSeq(chars, 1, Len(chars) - 1)) + Digit[chars[Len(chars)]]

RECURSIVE LeadingDigits(_)
LeadingDigits(chars) ==
    IF chars = << >> \/ ~IsDigit(Head(chars)) THEN << >>
    ELSE <<Head(chars)>> \o LeadingDigits(Tail(chars))

\* parseInt(text): the number its leading digits spell, NaN (NoNumber) when
\* there are none
ParseInt(chars) ==
    IF LeadingDigits(chars) = << >> THEN NoNumber
    ELSE <<DigitsValue(LeadingDigits(chars))>>

\* parseInt(text) || 0
ParseIntOr0(chars) == IF ParseInt(chars) = NoNumber THEN 0 ELSE ParseInt(chars)[1]

\* ethers accepts a BigNumberish string only when it is a whole decimal numeral
IsBigNumberish(chars) == chars # << >> /\ \A i \in 1..Len(chars) : IsDigit(chars[i])

\* ethers.formatUnits(value, decimals): the decimal number value / 10^decimals,
\* kept as the pair (atomic amount, decimal count); throws when the value is no
\* numeral or the decimal count is NaN
CanFormatUnits(chars, decimals) == IsBigNumberish(chars) /\ decimals # NoNumber

FormatUnits(chars, decimals) == [atomic |-> DigitsValue(chars), decimals |-> decimals[1]]

EtherDecimals == 18

\* ethers.formatEther(value) = formatUnits(value, 18)
CanFormatEther(chars) == CanFormatUnits(chars, <<EtherDecimals>>)

FormatEther(chars) == FormatUnits(chars, <<EtherDecimals>>)

-----------------------------------------------------------------------------
(* Upstream payloads *)

\* rows of the txlist / tokentx result array
RowTransfer ==
    [hash |-> "0xh1", from |-> "0xa1", to |-> "0xb1", value |-> <<"5", "0", "0">>,
     timeStamp |-> <<"1", "7">>, blockNumber |-> <<"4", "2">>,
     contractAddress |-> "0xc1", tokenName |-> "USD Coin", tokenSymbol |-> "USDC",
     tokenDecimal |-> <<"6">>]

RowCreation ==
    [hash |-> "0xh2", from |-> "0xa2", to |-> "", value |-> <<"0">>,
     timeStamp |-> <<"1", "8">>, blockNumber |-> <<"4", "3">>,
     contractAddress |-> "0xc2", tokenName |-> "Dai", tokenSymbol |-> "DAI",
     tokenDecimal |-> <<"1", "8">>]

RowBadValue ==
    [hash |-> "0xh3", from |-> "0xa3", to |-> "0xb3", value |-> <<"x">>,
     timeStamp |-> << >>, blockNumber |-> <<"4", "4">>,
     contractAddress |-> "0xc3", tokenName |-> "Bad", tokenSymbol |-> "BAD",
     tokenDecimal |-> <<"6">>]

RowNoDecimal ==
    [hash |-> "0xh4", from |-> "0xa4", to |-> Undefined, value |-> <<"7">>,
     timeStamp |-> <<"1", "9">>, blockNumber |-> <<"n">>,
     contractAddress |-> "0xc4", tokenName |-> "NoDec", tokenSymbol |-> "ND",
     tokenDecimal |-> << >>]

RowLooseDecimal ==
    [hash |-> "0xh5", from |-> "0xa5", to |-> "0xb5", value |-> <<"9">>,
     timeStamp |-> <<"2", "0">>, blockNumber |-> <<"4", "5">>,
     contractAddress |-> "0xc5", tokenName |-> "Loose", tokenSymbol |-> "LSE",
     tokenDecimal |-> <<"6", "x">>]

Rows == {RowTransfer, RowCreation, RowBadValue, RowNoDecimal, RowLooseDecimal}

\* the result arrays tried: an upstream listing does not repeat a row
RowSeqs ==
    UNION {{r \in [1..n -> Rows] : \A i, j \in 1..n : r[i] = r[j] => i = j} :
             n \in 0..MaxRows}

\* data.result
Absent == [type |-> "absent"]
RowsResult(rows) == [type |-> "rows", rows |-> rows]
TextResult(text) == [type |-> "text", text |-> text]
GasResult == [type |-> "gas", SafeGasPrice |-> "10", ProposeGasPrice |-> "12",
              FastGasPrice |-> "15"]

\* !data.result : an absent result or the empty string (an empty array is truthy)
Falsy(result) == result.type = "absent" \/ (result.type = "text" /\ result.text = "")

Json(status, message, result) ==
    [kind |-> "json", status |-> status, message |-> message, result |-> result]

\* the HTTP call itself failed, or the body was no JSON
TransportFailure == [kind |-> "reject", message |-> "fetch failed"]

ListResponses ==
    {Json("1", "OK", RowsResult(r)) : r \in RowSeqs}
    \cup {Json("0", "No transactions found", RowsResult(<< >>)),
          Json("0", "NOTOK", TextResult("Max rate limit reached")),
          Json("0", "NOTOK", RowsResult(<<RowTransfer>>)),
          Json("0", "", Absent),
          Json("1", "OK", Absent)}

AbiResponses ==
    {Json("1", "OK", TextResult("[{abi}]")),
     Json("1", "OK", TextResult("")),
     Json("1", "OK", Absent),
     Json("0", "NOTOK", TextResult("Contract source code not verified")),
     Json("0", "", Absent)}

GasResponses ==
    {Json("1", "OK", GasResult),
     Json("1", "OK", Absent),
     Json("0", "NOTOK", GasResult),
     Json("0", "NOTOK", TextResult("Invalid API Key")),
     Json("0", "", TextResult("Invalid API Key")),
     Json("0", "", Absent)}

\* provider.getBalance resolves to a bigint
BalanceResponses == {[kind |-> "bigint", value |-> 0],
                     [kind |-> "bigint", value |-> 25]}

\* provider.lookupAddress resolves to a name or to null
NoName == Undefined
EnsResponses == {[kind |-> "name", value |-> "vitalik.eth"],
                 [kind |-> "name", value |-> NoName]}

-----------------------------------------------------------------------------
(* EtherscanService: helpers *)

\* what a step of a method does: throw, send the outbound request, or return
Throw(site, message) == [kind |-> "throw", site |-> site, message |-> message]
Send(req) == [kind |-> "send", req |-> req]
Return(value) == [kind |-> "return", value |-> value]

UndefinedConfig == [apiUrl |-> Undefined, networkName |-> Undefined,
                    currencySymbol |-> Undefined]

\* const selectedNetwork = network || this.defaultNetwork
SelectedNetwork(network) == Or(network, etherscanService.defaultNetwork)

\* this.apiKeys[selectedNetwork]
ApiKeyAt(selectedNetwork) ==
    IF selectedNetwork \in DOMAIN etherscanService.apiKeys
    THEN etherscanService.apiKeys[selectedNetwork]
    ELSE Undefined

GetNetworkConfig(network) ==
    LET selectedNetwork == Or(network, etherscanService.defaultNetwork)
    IN  IF selectedNetwork \in DOMAIN etherscanService.networkConfigs
        THEN etherscanService.networkConfigs[selectedNetwork]
        ELSE UndefinedConfig

\* throws when this.providers[selectedNetwork] is missing
GetProvider(network) ==
    LET selectedNetwork == Or(network, etherscanService.defaultNetwork)
    IN  IF selectedNetwork \notin DOMAIN etherscanService.providers
        THEN [ok |-> FALSE,
              message |-> "Network " \o selectedNetwork
                          \o " is not supported or missing API key"]
        ELSE [ok |-> TRUE, provider |-> etherscanService.providers[selectedNetwork]]

IsNetworkSupported(network) ==
    LET selectedNetwork == Or(network, etherscanService.defaultNetwork)
    IN  /\ Truthy(ApiKeyAt(selectedNetwork))
        /\ selectedNetwork \in DOMAIN etherscanService.providers

\* limit: number = 10
DefaultLimit == 10
LimitOrDefault(limit) == IF limit = NoNumber THEN DefaultLimit ELSE limit[1]

ProviderRequest(provider, method, address) ==
    [transport |-> "provider", target |-> provider.networkName, module |-> "provider",
     action |-> method, address |-> address, offset |-> NoNumber,
     apikey |-> provider.apiKey]

FetchRequest(networkConfig, module, action, address, offset, apikey) ==
    [transport |-> "fetch", target |-> networkConfig.apiUrl, module |-> module,
     action |-> action, address |-> address, offset |-> offset, apikey |-> apikey]

\* reading networkConfig.apiUrl of an identifier outside NETWORK_CONFIGS
ApiUrlTypeError == Throw("networkConfig", "Cannot read properties of undefined (reading 'apiUrl')")

-----------------------------------------------------------------------------
(* EtherscanService: each method up to its first await *)

\* a variant that validates the address before it looks the provider up
GetAddressBalanceBegin_AddressFirst(address, network) ==
    LET selectedNetwork == SelectedNetwork(network)
        provider == GetProvider(selectedNetwork)
        validAddress == GetAddress(address)
    IN  IF ~validAddress.ok THEN Throw("getAddress", validAddress.message)
        ELSE IF ~provider.ok THEN Throw("getProvider", provider.message)
        ELSE Send(ProviderRequest(provider.provider, "getBalance", validAddress.value))

GetAddressBalanceBegin(address, network) ==
    LET selectedNetwork == SelectedNetwork(network)
        provider == GetProvider(selectedNetwork)
        validAddress == GetAddress(address)
    IN  IF ~provider.ok THEN Throw("getProvider", provider.message)
        ELSE IF ~validAddress.ok THEN Throw("getAddress", validAddress.message)
        ELSE Send(ProviderRequest(provider.provider, "getBalance", validAddress.value))

\* a variant that validates the address but puts the caller's text in the URL
FetchBegin_RawAddress(hasAddress, module, action, address, offset, network) ==
    LET selectedNetwork == SelectedNetwork(network)
        networkConfig == GetNetworkConfig(selectedNetwork)
        validAddress == IF hasAddress THEN GetAddress(address)
                        ELSE [ok |-> TRUE, value |-> Undefined, message |-> ""]
    IN  IF ~validAddress.ok THEN Throw("getAddress", validAddress.message)
        ELSE IF networkConfig = UndefinedConfig THEN ApiUrlTypeError
        ELSE Send(FetchRequest(networkConfig, module, action, address,
                               offset, ApiKeyAt(selectedNetwork)))

\* the shape shared by the four fetch-based methods: resolve, (validate the
\* address,) build the URL and fetch
FetchBegin(hasAddress, module, action, address, offset, network) ==
    LET selectedNetwork == SelectedNetwork(network)
        networkConfig == GetNetworkConfig(selectedNetwork)
        validAddress == IF hasAddress THEN GetAddress(address)
                        ELSE [ok |-> TRUE, value |-> Undefined, message |-> ""]
    IN  IF ~validAddress.ok THEN Throw("getAddress", validAddress.message)
        ELSE IF networkConfig = UndefinedConfig THEN ApiUrlTypeError
        ELSE Send(FetchRequest(networkConfig, module, action, validAddress.value,
                               offset, ApiKeyAt(selectedNetwork)))

GetTransactionHistoryBegin(address, limit, network) ==
    FetchBegin(TRUE, "account", "txlist", address, <<LimitOrDefault(limit)>>, network)

GetTokenTransfersBegin(address, limit, network) ==
    FetchBegin(TRUE, "account", "tokentx", address, <<LimitOrDefault(limit)>>, network)

GetContractABIBegin(address, network) ==
    FetchBegin(TRUE, "contract", "getabi", address, NoNumber, network)

GetGasOracleBegin(network) ==
    FetchBegin(FALSE, "gastracker", "gasoracle", Undefined, NoNumber, network)

\* a variant that looks the name up on every network
GetENSNameBegin_AlwaysLookup(address, network) ==
    LET selectedNetwork == SelectedNetwork(network)
        provider == GetProvider(selectedNetwork)
        validAddress == GetAddress(address)
    IN  IF ~provider.ok THEN Throw("getProvider", provider.message)
        ELSE IF ~validAddress.ok THEN Throw("getAddress", validAddress.message)
        ELSE Send(ProviderRequest(provider.provider, "lookupAddress", validAddress.value))

GetENSNameBegin(address, network) ==
    LET selectedNetwork == SelectedNetwork(network)
        provider == GetProvider(selectedNetwork)
        networkConfig == GetNetworkConfig(selectedNetwork)
        validAddress == GetAddress(address)
    IN  IF ~provider.ok THEN Throw("getProvider", provider.message)
        ELSE IF ~validAddress.ok THEN Throw("getAddress", validAddress.message)
        ELSE IF networkConfig.networkName = "mainnet"
        THEN Send(ProviderRequest(provider.provider, "lookupAddress", validAddress.value))
        ELSE Return([name |-> NoName])

-----------------------------------------------------------------------------
(* EtherscanService: each method from the response on *)

\* if (data.status !== "1" || !data.result) throw new Error(data.message || fallback)
StatusFailure(data) == data.status # "1" \/ Falsy(data.result)

\* a variant that drops the upstream message
StatusThrow_Generic(data, fallback) == Throw("status", fallback)

StatusThrow(data, fallback) == Throw("status", Or(data.message, fallback))

GetAddressBalanceEnd(validAddress, network, balanceInWei) ==
    LET selectedNetwork == SelectedNetwork(network)
        networkConfig == GetNetworkConfig(selectedNetwork)
    IN  Return([address |-> validAddress,
                balanceInWei |-> balanceInWei,
                balanceInEth |-> [atomic |-> balanceInWei, decimals |-> EtherDecimals],
                currencySymbol |-> networkConfig.currencySymbol,
                network |-> selectedNetwork])

\* a variant that passes the recipient through as it came
ToTransaction_RawTo(tx) ==
    [hash |-> tx.hash,
     from |-> tx.from,
     to |-> tx.to,
     value |-> FormatEther(tx.value),
     timestamp |-> ParseIntOr0(tx.timeStamp),
     blockNumber |-> ParseIntOr0(tx.blockNumber)]

ToTransaction(tx) ==
    [hash |-> tx.hash,
     from |-> tx.from,
     to |-> Or(tx.to, "Contract Creation"),
     value |-> FormatEther(tx.value),
     timestamp |-> ParseIntOr0(tx.timeStamp),
     blockNumber |-> ParseIntOr0(tx.blockNumber)]

ToTokenTransfer(tx) ==
    [token |-> tx.contractAddress,
     tokenName |-> tx.tokenName,
     tokenSymbol |-> tx.tokenSymbol,
     from |-> tx.from,
     to |-> tx.to,
     value |-> FormatUnits(tx.value, ParseInt(tx.tokenDecimal)),
     timestamp |-> ParseIntOr0(tx.timeStamp),
     blockNumber |-> ParseIntOr0(tx.blockNumber)]

\* a variant that drops the rows it cannot convert
MapTransactions_SkipBad(rows) ==
    LET kept == SelectSeq(rows, LAMBDA tx : CanFormatEther(tx.value))
    IN  Return([records |-> [i \in 1..Len(kept) |-> ToTransaction(kept[i])]])

\* rows.map(tx => ...): one throwing row makes the whole map throw
MapTransactions(rows) ==
    IF \A i \in 1..Len(rows) : CanFormatEther(rows[i].value)
    THEN Return([records |-> [i \in 1..Len(rows) |-> ToTransaction(rows[i])]])
    ELSE Throw("formatEther", "invalid BigNumberish string")

MapTokenTransfers(rows) ==
    IF \A i \in 1..Len(rows) :
          CanFormatUnits(rows[i].value, ParseInt(rows[i].tokenDecimal))
    THEN Return([records |-> [i \in 1..Len(rows) |-> ToTokenTransfer(rows[i])]])
    ELSE Throw("formatUnits", "invalid BigNumberish value or unit")

\* a variant that maps the whole payload
SliceRows_NoTruncate(rows, limit) == rows

\* data.result.slice(0, limit)
SliceRows(rows, limit) == Slice0(rows, LimitOrDefault(limit))

NotAnArray == Throw("map", "data.result.slice(...).map is not a function")

GetTransactionHistoryEnd(limit, data) ==
    IF StatusFailure(data) THEN StatusThrow(data, "Failed to fetch transactions")
    ELSE IF data.result.type # "rows" THEN NotAnArray
    ELSE MapTransactions(SliceRows(data.result.rows, limit))

GetTokenTransfersEnd(limit, data) ==
    IF StatusFailure(data) THEN StatusThrow(data, "Failed to fetch token transfers")
    ELSE IF data.result.type # "rows" THEN NotAnArray
    ELSE MapTokenTransfers(SliceRows(data.result.rows, limit))

GetContractABIEnd(data) ==
    IF StatusFailure(data) THEN StatusThrow(data, "Failed to fetch contract ABI")
    ELSE Return([abi |-> data.result])

GetGasOracleEnd(data) ==
    IF StatusFailure(data) THEN StatusThrow(data, "Failed to fetch gas prices")
    ELSE IF data.result.type = "gas"
    THEN Return([safeGwei |-> data.result.SafeGasPrice,
                 proposeGwei |-> data.result.ProposeGasPrice,
                 fastGwei |-> data.result.FastGasPrice])
    ELSE Return([safeGwei |-> Undefined, proposeGwei |-> Undefined,
                 fastGwei |-> Undefined])

GetENSNameEnd(name) == Return([name |-> name])

\* catch (error) { throw new Error(`Failed to get ...: ${error.message}`) }
ErrorPrefix(op) ==
    CASE op = "getAddressBalance"     -> "Failed to get balance: "
      [] op = "getTransactionHistory" -> "Failed to get transaction history: "
      [] op = "getTokenTransfers"     -> "Failed to get token transfers: "
      [] op = "getContractABI"        -> "Failed to get contract ABI: "
      [] op = "getGasOracle"          -> "Failed to get gas prices: "
      [] op = "getENSName"            -> "Failed to get ENS name: "

Wrap(op, step) ==
    IF step.kind = "throw"
    THEN Throw(step.site, ErrorPrefix(op) \o step.message)
    ELSE step

Methods == {"getAddressBalance", "getTransactionHistory", "getTokenTransfers",
            "getContractABI", "getGasOracle", "getENSName"}

\* the method body up to its first await, inside its try/catch
MethodBegin(op, address, limit, network) ==
    Wrap(op,
        CASE op = "getAddressBalance"     -> GetAddressBalanceBegin(address, network)
          [] op = "getTransactionHistory" -> GetTransactionHistoryBegin(address, limit, network)
          [] op = "getTokenTransfers"     -> GetTokenTransfersBegin(address, limit, network)
          [] op = "getContractABI"        -> GetContractABIBegin(address, network)
          [] op = "getGasOracle"          -> GetGasOracleBegin(network)
          [] op = "getENSName"            -> GetENSNameBegin(address, network))

ResponsesFor(op) ==
    CASE op = "getAddressBalance"     -> BalanceResponses
      [] op = "getTransactionHistory" -> ListResponses
      [] op = "getTokenTransfers"     -> ListResponses
      [] op = "getContractABI"        -> AbiResponses
      [] op = "getGasOracle"          -> GasResponses
      [] op = "getENSName"            -> EnsResponses

\* the rest of the method body once the awaited call has settled
MethodEnd(op, req, limit, network, resp) ==
    Wrap(op,
        IF resp.kind = "reject" THEN Throw("transport", resp.message)
        ELSE CASE op = "getAddressBalance" ->
                      GetAddressBalanceEnd(req.address, network, resp.value)
               [] op = "getTransactionHistory" -> GetTransactionHistoryEnd(limit, resp)
               [] op = "getTokenTransfers"     -> GetTokenTransfersEnd(limit, resp)
               [] op = "getContractABI"        -> GetContractABIEnd(resp)
               [] op = "getGasOracle"          -> GetGasOracleEnd(resp)
               [] op = "getENSName"            -> GetENSNameEnd(resp.value))

-----------------------------------------------------------------------------
(* server.ts: the CallToolRequestSchema handler *)

Tools == {"check-balance", "get-transactions", "get-token-transfers",
          "get-contract-abi", "get-gas-prices", "get-ens-name",
          "list-supported-networks"}

ToolMethod(name) ==
    CASE name = "check-balance"       -> "getAddressBalance"
      [] name = "get-transactions"    -> "getTransactionHistory"
      [] name = "get-token-transfers" -> "getTokenTransfers"
      [] name = "get-contract-abi"    -> "getContractABI"
      [] name = "get-gas-prices"      -> "getGasOracle"
      [] name = "get-ens-name"        -> "getENSName"
      [] OTHER                        -> "none"

TakesAddress(op) == op \in Methods \ {"getGasOracle"}
TakesLimit(op) == op \in {"getTransactionHistory", "getTokenTransfers"}

SchemaMinLimit == 1
SchemaMaxLimit == 100

\* AddressSchema / TransactionHistorySchema / TokenTransferSchema / ContractSchema /
\* GasOracleSchema .parse(args), for a network argument that is absent or in the enum
SchemaAccepts(name, address, limit) ==
    /\ TakesAddress(ToolMethod(name)) => MatchesAddressPattern(address)
    /\ (TakesLimit(ToolMethod(name)) /\ limit # NoNumber)
          => (SchemaMinLimit <= limit[1] /\ limit[1] <= SchemaMaxLimit)

Respond(response) == [kind |-> "respond", response |-> response]
Invoke(op) == [kind |-> "invoke", op |-> op]

TextResponse(template, address, network, detail) ==
    [kind |-> "text", template |-> template, address |-> address,
     network |-> network, detail |-> detail]

ErrorResponse(site, message) == [kind |-> "error", site |-> site, message |-> message]

RECURSIVE Join(_)
\* availableNetworks.join(', ')
Join(seq) ==
    IF seq = << >> THEN ""
    ELSE IF Len(seq) = 1 THEN seq[1]
    ELSE seq[1] \o ", " \o Join(Tail(seq))

\* `Network "${network}" is not supported or missing API key. Available networks: ...`
UnsupportedNetworkResponse(network) ==
    TextResponse("network-unsupported", Undefined, network, Join(availableNetworks))

\* list-supported-networks: one line per available network
SupportedNetworksResponse ==
    TextResponse("supported-networks", Undefined, Undefined,
                 Join([i \in 1..Len(availableNetworks) |->
                         availableNetworks[i] \o ": "
                         \o GetNetworkConfig(availableNetworks[i]).currencySymbol]))

\* a variant that falls back to the documented default instead of the configured one
HandlerSelectedNetwork_Hardcoded(network) == Or(network, "ethereum")

\* const selectedNetwork = network || defaultNetwork   (the handler's own copy)
HandlerSelectedNetwork(network) == Or(network, defaultNetwork)

\* the handler up to its call of the service
HandlerBegin(name, address, limit, network) ==
    IF name = "list-supported-networks" THEN Respond(SupportedNetworksResponse)
    ELSE IF name \notin Tools THEN Throw("unknown-tool", "Unknown tool: " \o name)
    ELSE IF ~SchemaAccepts(name, address, limit)
    THEN Throw("zod", "Invalid input: schema violation")
    ELSE IF Truthy(network) /\ ~IsNetworkSupported(network)
    THEN Respond(UnsupportedNetworkResponse(network))
    ELSE Invoke(ToolMethod(name))

\* the handler once the service method has settled
HandlerEnd(name, address, network, result) ==
    LET selectedNetwork == HandlerSelectedNetwork(network)
        v == result.value
    IN  IF result.kind = "throw" THEN ErrorResponse(result.site, result.message)
        ELSE CASE name = "check-balance" ->
                    TextResponse("balance", v.address, v.network, v.currencySymbol)
               [] name = "get-transactions" ->
                    IF Len(v.records) > 0
                    THEN TextResponse("transactions", address, selectedNetwork,
                                      GetNetworkConfig(network).currencySymbol)
                    ELSE TextResponse("no-transactions", address, selectedNetwork, "")
               [] name = "get-token-transfers" ->
                    IF Len(v.records) > 0
                    THEN TextResponse("token-transfers", address, selectedNetwork, "")
                    ELSE TextResponse("no-token-transfers", address, selectedNetwork, "")
               [] name = "get-contract-abi" ->
                    TextResponse("contract-abi", address, selectedNetwork, "")
               [] name = "get-gas-prices" ->
                    TextResponse("gas-prices", Undefined, selectedNetwork, v.safeGwei)
               [] name = "get-ens-name" ->
                    IF selectedNetwork # "ethereum"
                    THEN TextResponse("ens-only-on-mainnet", Undefined, selectedNetwork, "")
                    ELSE IF Truthy(v.name)
                    THEN TextResponse("ens-name", address, Undefined, v.name)
                    ELSE TextResponse("no-ens-name", address, Undefined, "")

-----------------------------------------------------------------------------
(* State machine *)

NoResp == [kind |-> "none"]
NoResult == [kind |-> "none"]
NoResponse == [kind |-> "none"]

IdleCall ==
    [pc |-> "idle", via |-> "none", tool |-> "none", op |-> "none",
     address |-> Undefined, limit |-> NoNumber, network |-> Undefined,
     reqs |-> << >>, resp |-> NoResp, result |-> NoResult, response |-> NoResponse]

Slots == {1}

Init ==
    /\ env = [ETHEREUM_API_KEY |-> Undefined, SONIC_API_KEY |-> Undefined,
              BASE_API_KEY |-> Undefined, ETHERSCAN_API_KEY |-> Undefined,
              DEFAULT_EXPLORER_NETWORK |-> Undefined]
    /\ phase = "boot"
    /\ apiKeys = [n \in NetworkType |-> ""]
    /\ defaultNetwork = Undefined
    /\ availableNetworks = << >>
    /\ etherscanService = NoService
    /\ calls = [s \in Slots |-> IdleCall]

\* config() and the module-level statements of server.ts, in order
Startup ==
    /\ phase = "boot"
    /\ \E e \in Environments :
          /\ env' = e
          /\ apiKeys' = ApiKeysOf(e)
          /\ IF NoApiKey(e)
             THEN /\ phase' = "failed"
                  /\ UNCHANGED <<defaultNetwork, availableNetworks, etherscanService>>
             ELSE /\ defaultNetwork' = DefaultNetworkOf(e)
                  /\ availableNetworks' = AvailableNetworksOf(ApiKeysOf(e))
                  /\ IF Len(AvailableNetworksOf(ApiKeysOf(e))) = 0
                     THEN /\ phase' = "failed"
                          /\ UNCHANGED etherscanService
                     ELSE /\ phase' = "running"
                          /\ etherscanService' =
                                NewEtherscanService(ApiKeysOf(e), DefaultNetworkOf(e))
    /\ UNCHANGED calls

AddressArgs(op) == IF TakesAddress(op) THEN Addresses ELSE {Undefined}
LimitArgs(op, lowest) ==
    IF TakesLimit(op) THEN {NoNumber} \cup {<<n>> : n \in lowest..MaxLimit} ELSE {NoNumber}
NetworkArgs == {Undefined} \cup NetworkType

ServerConsts == <<env, phase, apiKeys, defaultNetwork, availableNetworks, etherscanService>>

\* a tools/call request with these arguments arrives: the handler runs up to
\* its first await
CallToolWith(s, name, address, limit, network) ==
    /\ phase = "running"
    /\ calls[s].pc = "idle"
    /\ LET step == HandlerBegin(name, address, limit, network)
           call == [IdleCall EXCEPT !.via = "tool", !.tool = name,
                       !.address = address, !.limit = limit, !.network = network]
       IN  calls' = [calls EXCEPT ![s] =
              IF step.kind = "invoke"
              THEN [call EXCEPT !.pc = "svc", !.op = step.op]
              ELSE IF step.kind = "respond"
              THEN [call EXCEPT !.pc = "done", !.response = step.response]
              ELSE [call EXCEPT !.pc = "done",
                       !.response = ErrorResponse(step.site, step.message)]]
    /\ UNCHANGED ServerConsts

CallTool(s) ==
    /\ phase = "running"
    /\ calls[s].pc = "idle"
    /\ \E name \in Tools \cup {"no-such-tool"} :
       \E address \in AddressArgs(ToolMethod(name)) :
       \E limit \in LimitArgs(ToolMethod(name), 0) :
       \E network \in NetworkArgs :
          CallToolWith(s, name, address, limit, network)

\* a method of the exported EtherscanService is called without the handler
DirectInvokeWith(s, op, address, limit, network) ==
    /\ phase = "running"
    /\ calls[s].pc = "idle"
    /\ calls' = [calls EXCEPT ![s] =
                    [IdleCall EXCEPT !.pc = "svc", !.via = "direct", !.op = op,
                        !.address = address, !.limit = limit, !.network = network]]
    /\ UNCHANGED ServerConsts

DirectInvoke(s) ==
    /\ phase = "running"
    /\ calls[s].pc = "idle"
    /\ \E op \in Methods :
       \E address \in AddressArgs(op) :
       \E limit \in LimitArgs(op, 1) :
       \E network \in NetworkArgs :
          DirectInvokeWith(s, op, address, limit, network)

\* a variant in which the method keeps the network it resolved as the new default
ServiceBegin_RememberNetwork(s) ==
    /\ calls[s].pc = "svc"
    /\ LET c == calls[s]
           step == MethodBegin(c.op, c.address, c.limit, c.network)
       IN  /\ calls' = [calls EXCEPT ![s] =
                 IF step.kind = "send"
                 THEN [c EXCEPT !.pc = "await", !.reqs = Append(c.reqs, step.req)]
                 ELSE [c EXCEPT !.pc = "svcdone", !.result = step]]
           /\ etherscanService' =
                 [etherscanService EXCEPT !.defaultNetwork = SelectedNetwork(c.network)]
    /\ UNCHANGED <<env, phase, apiKeys, defaultNetwork, availableNetworks>>

\* the service method runs up to its first await
ServiceBegin(s) ==
    /\ calls[s].pc = "svc"
    /\ LET c == calls[s]
           step == MethodBegin(c.op, c.address, c.limit, c.network)
       IN  calls' = [calls EXCEPT ![s] =
              IF step.kind = "send"
              THEN [c EXCEPT !.pc = "await", !.reqs = Append(c.reqs, step.req)]
              ELSE [c EXCEPT !.pc = "svcdone", !.result = step]]
    /\ UNCHANGED ServerConsts

\* the awaited upstream call settles and the method runs to its end
UpstreamRespond(s) ==
    /\ calls[s].pc = "await"
    /\ LET c == calls[s]
       IN  \E resp \in ResponsesFor(c.op) \cup {TransportFailure} :
              calls' = [calls EXCEPT ![s] =
                 [c EXCEPT !.pc = "svcdone", !.resp = resp,
                     !.result = MethodEnd(c.op, c.reqs[Len(c.reqs)], c.limit,
                                          c.network, resp)]]
    /\ UNCHANGED ServerConsts

\* the handler resumes after its await and renders the response
HandlerFinish(s) ==
    /\ calls[s].pc = "svcdone"
    /\ calls[s].via = "tool"
    /\ LET c == calls[s]
       IN  calls' = [calls EXCEPT ![s] =
              [c EXCEPT !.pc = "done",
                  !.response = HandlerEnd(c.tool, c.address, c.network, c.result)]]
    /\ UNCHANGED ServerConsts

\* the caller has taken the outcome; the slot is free for the next invocation
Finished(c) == IF c.via = "tool" THEN c.pc = "done" ELSE c.pc = "svcdone"

Release(s) ==
    /\ Finished(calls[s])
    /\ calls' = [calls EXCEPT ![s] = IdleCall]
    /\ UNCHANGED ServerConsts

Next ==
    \/ Startup
    \/ \E s \in DOMAIN calls : CallTool(s)
    \/ \E s \in DOMAIN calls : DirectInvoke(s)
    \/ \E s \in DOMAIN calls : ServiceBegin(s)
    \/ \E s \in DOMAIN calls : UpstreamRespond(s)
    \/ \E s \in DOMAIN calls : HandlerFinish(s)
    \/ \E s \in DOMAIN calls : Release(s)

Spec == Init /\ [][Next]_vars

-----------------------------------------------------------------------------
(* Two invocations in flight at once: the handler and the service methods are
   async, so a second request can start while the first one awaits upstream *)

ConcSlots == {1, 2}

\* the environments tried: ethereum and base have their own key, sonic has
\* none; the default network is ethereum or base
ConcEnvironments ==
    {e \in Environments :
        /\ e.ETHEREUM_API_KEY = "eth-key" /\ e.SONIC_API_KEY = Undefined
        /\ e.BASE_API_KEY = "base-key" /\ e.ETHERSCAN_API_KEY = Undefined
        /\ e.DEFAULT_EXPLORER_NETWORK \in {Undefined, "base"}}

\* the invocations tried: slot 1 takes tool calls on the default network,
\* slot 2 takes direct service calls on base or sonic
ConcTools == {"check-balance", "get-transactions"}
ConcMethods == {"getTokenTransfers", "getGasOracle"}
ConcLimits(op) == IF TakesLimit(op) THEN {NoNumber, <<1>>} ELSE {NoNumber}

InitConc ==
    /\ env = [ETHEREUM_API_KEY |-> Undefined, SONIC_API_KEY |-> Undefined,
              BASE_API_KEY |-> Undefined, ETHERSCAN_API_KEY |-> Undefined,
              DEFAULT_EXPLORER_NETWORK |-> Undefined]
    /\ phase = "boot"
    /\ apiKeys = [n \in NetworkType |-> ""]
    /\ defaultNetwork = Undefined
    /\ availableNetworks = << >>
    /\ etherscanService = NoService
    /\ calls = [s \in ConcSlots |-> IdleCall]

\* a tool call arrives in slot 1
CallToolConc ==
    /\ calls[1].pc = "idle"
    /\ \E name \in ConcTools :
       \E limit \in ConcLimits(ToolMethod(name)) :
          CallToolWith(1, name, LowerAddress, limit, Undefined)

\* a direct service call arrives in slot 2
DirectInvokeConc ==
    /\ calls[2].pc = "idle"
    /\ \E op \in ConcMethods :
       \E limit \in ConcLimits(op) :
       \E network \in {"base", "sonic"} :
          DirectInvokeWith(2, op, IF TakesAddress(op) THEN ChecksumAddress ELSE Undefined,
                           limit, network)

NextConc ==
    \/ Startup /\ env' \in ConcEnvironments
    \/ CallToolConc
    \/ DirectInvokeConc
    \/ \E s \in DOMAIN calls : ServiceBegin(s)
    \/ \E s \in DOMAIN calls : UpstreamRespond(s)
    \/ \E s \in DOMAIN calls : HandlerFinish(s)
    \/ \E s \in DOMAIN calls : Release(s)

SpecConc == InitConc /\ [][NextConc]_vars

-----------------------------------------------------------------------------
(* Vocabulary of the properties *)

\* the network an invocation resolves to: the explicit argument, else the
\* configured default
ResolvedNetwork(c) == IF c.network # Undefined THEN c.network ELSE DefaultNetworkOf(env)

\* CredentialSet[n]; an identifier outside the registry has no credential
Credential(n) == IF n \in NetworkType THEN apiKeys[n] ELSE ""

\* the service method of the invocation has run past its synchronous prefix
Started(c) == c.op \in Methods /\ c.pc \in {"await", "svcdone", "done"}

\* the service method of the invocation has settled
Settled(c) == c.op \in Methods /\ c.pc \in {"svcdone", "done"}

\* the network whose explorer a request was addressed to
NetworkOfRequest(req) ==
    CHOOSE n \in NetworkType :
        IF req.transport = "fetch"
        THEN NETWORK_CONFIGS[n].apiUrl = req.target
        ELSE NETWORK_CONFIGS[n].networkName = req.target

-----------------------------------------------------------------------------
(* C1 *)

\* C1: no operation issues an outbound request for a resolved network whose
\* credential is empty (every operation validates usability before its call).
C1_NoRequestWithoutCredential ==
    \A s \in DOMAIN calls :
        calls[s].reqs # << >> => Credential(ResolvedNetwork(calls[s])) # ""

-----------------------------------------------------------------------------
(* C2 *)

\* C2: getBalance on a resolved network with an empty credential fails with the
\* error getProvider throws (NetworkUnavailable) and sends nothing, whatever the
\* address and whether the network was explicit or the default.
C2_BalanceNetworkUnavailable ==
    \A s \in DOMAIN calls :
        LET c == calls[s]
        IN  (Started(c) /\ c.op = "getAddressBalance"
                /\ Credential(ResolvedNetwork(c)) = "")
            => /\ c.pc # "await"
               /\ c.reqs = << >>
               /\ c.result.kind = "throw"
               /\ c.result.site = "getProvider"
               /\ c.result.message = "Failed to get balance: Network "
                     \o ResolvedNetwork(c) \o " is not supported or missing API key"

\* C2 witness: getBalance with a malformed address on a default network that
\* has no credential has settled.
C2_Witness ==
    \E s \in DOMAIN calls :
        LET c == calls[s]
        IN  /\ Settled(c) /\ c.op = "getAddressBalance"
            /\ c.network = Undefined
            /\ c.address = BadChecksumAddress
            /\ Credential(ResolvedNetwork(c)) = ""
            /\ c.result.kind = "throw"

-----------------------------------------------------------------------------
(* C3 *)

\* how an ENS invocation ended, as its caller sees it: through the tool, by the
\* text rendered; in a direct call, by the value returned (null is what a
\* mainnet lookup without a name returns)
EnsOutcome(c) ==
    IF c.via = "tool"
    THEN IF c.response.kind = "error" THEN "failed"
         ELSE CASE c.response.template = "ens-only-on-mainnet" -> "not-supported"
                [] c.response.template = "ens-name"            -> "found"
                [] c.response.template = "no-ens-name"         -> "not-found"
                [] OTHER                                       -> "failed"
    ELSE IF c.result.kind = "throw" THEN "failed"
         ELSE IF Truthy(c.result.value.name) THEN "found" ELSE "not-found"

\* C3: getENSName on a resolved network other than the Ethereum mainnet always
\* ends in the not-supported outcome, whatever the address and the credential,
\* and sends nothing upstream.
C3_EnsNotSupportedOffMainnet ==
    \A s \in DOMAIN calls :
        LET c == calls[s]
        IN  (Finished(c) /\ c.op = "getENSName" /\ ResolvedNetwork(c) # "ethereum")
            => (EnsOutcome(c) = "not-supported" /\ c.reqs = << >>)

-----------------------------------------------------------------------------
(* C4 *)

\* C4: getTransactions returns an empty sequence, not an error, when upstream
\* reports no matching rows (a non-success status with an empty result array).
C4_EmptyWhenNoRows ==
    \A s \in DOMAIN calls :
        LET c == calls[s]
        IN  (Settled(c) /\ c.op = "getTransactionHistory" /\ c.resp.kind = "json"
                /\ c.resp.status # "1" /\ c.resp.result = RowsResult(<< >>))
            => (c.result.kind = "return" /\ c.result.value.records = << >>)

-----------------------------------------------------------------------------
(* C5 *)

ListOps == {"getTransactionHistory", "getTokenTransfers"}

\* the limit in force: the argument, or 10 when it is omitted
LimitInForce(c) == IF c.limit = NoNumber THEN 10 ELSE c.limit[1]

\* C5: a successful getTransactions / getTokenTransfers returns at most `limit`
\* records, and they are the first records of the upstream payload in upstream
\* order.
C5_AtMostLimitInOrder ==
    \A s \in DOMAIN calls :
        LET c == calls[s]
        IN  (Settled(c) /\ c.op \in ListOps /\ c.result.kind = "return")
            => LET records == c.result.value.records
                   rows == c.resp.result.rows
               IN  /\ Len(records) <= LimitInForce(c)
                   /\ Len(records) = Min(LimitInForce(c), Len(rows))
                   /\ \A i \in 1..Len(records) :
                         /\ records[i].from = rows[i].from
                         /\ records[i].blockNumber = ParseIntOr0(rows[i].blockNumber)

\* C5 witness: a list operation with limit 1 has returned one record of a
\* payload of two rows.
C5_Witness ==
    \E s \in DOMAIN calls :
        LET c == calls[s]
        IN  /\ Settled(c) /\ c.op \in ListOps /\ c.result.kind = "return"
            /\ c.limit = <<1>>
            /\ Len(c.resp.result.rows) = 2
            /\ Len(c.result.value.records) = 1

-----------------------------------------------------------------------------
(* C6 *)

-----------------------------------------------------------------------------
(* C7 *)

GasStatusZero(c) ==
    /\ Settled(c) /\ c.op = "getGasOracle"
    /\ c.resp.kind = "json" /\ c.resp.status = "0"

\* C7 (as stated): getGasOracle fails whenever the upstream status is "0", and
\* the error's message is the upstream message text unmodified.
C7_MessageIsUpstreamText ==
    \A s \in DOMAIN calls :
        GasStatusZero(calls[s])
            => /\ calls[s].result.kind = "throw"
               /\ calls[s].result.message = calls[s].resp.message

\* C7 (amended): getGasOracle fails whenever the upstream status is "0"; the
\* error's message is "Failed to get gas prices: " followed by the upstream
\* message text unmodified, or by "Failed to fetch gas prices" when upstream
\* gave no message text.
C7_MessageCarriesUpstreamText ==
    \A s \in DOMAIN calls :
        GasStatusZero(calls[s])
            => /\ calls[s].result.kind = "throw"
               /\ calls[s].result.site = "status"
               /\ calls[s].result.message =
                     "Failed to get gas prices: "
                     \o (IF calls[s].resp.message \in {"", Undefined}
                         THEN "Failed to fetch gas prices"
                         ELSE calls[s].resp.message)

\* C7 witness: getGasOracle has settled on a status "0" response with a message.
C7_Witness ==
    \E s \in DOMAIN calls :
        /\ GasStatusZero(calls[s])
        /\ calls[s].resp.message = "NOTOK"
        /\ calls[s].result.kind = "throw"

-----------------------------------------------------------------------------
(* C8 *)

\* C8: after module initialisation each network's credential is its own
\* variable when set, else the shared one, else empty; initialisation fails
\* exactly when every credential is empty, and otherwise the client exists with
\* those credentials.
C8_CredentialFallbackAndStartup ==
    phase # "boot" =>
        /\ \A n \in NetworkType :
              apiKeys[n] = (IF env[EnvKeyName(n)] # Undefined THEN env[EnvKeyName(n)]
                            ELSE IF env.ETHERSCAN_API_KEY # Undefined
                            THEN env.ETHERSCAN_API_KEY
                            ELSE "")
        /\ (phase = "failed") <=> (\A n \in NetworkType : apiKeys[n] = "")
        /\ (phase = "running") =>
              /\ etherscanService.apiKeys = apiKeys
              /\ etherscanService.defaultNetwork = defaultNetwork
              /\ DOMAIN etherscanService.providers = {n \in NetworkType : apiKeys[n] # ""}

\* C8 witness: the server runs with one credential taken from its own variable
\* and another from the shared one.
C8_Witness ==
    /\ phase = "running"
    /\ env.ETHEREUM_API_KEY = "eth-key" /\ apiKeys["ethereum"] = "eth-key"
    /\ env.SONIC_API_KEY = Undefined /\ apiKeys["sonic"] = "shared-key"

-----------------------------------------------------------------------------
(* C9 *)

\* the rows a list operation converts, and whether one of them cannot be
RowsProcessed(c) == SubSeq(c.resp.result.rows, 1,
                           Min(LimitInForce(c), Len(c.resp.result.rows)))

Unconvertible(op, row) ==
    IF op = "getTransactionHistory" THEN ~IsBigNumberish(row.value)
    ELSE ~IsBigNumberish(row.value) \/ ParseInt(row.tokenDecimal) = NoNumber

GotRows(c) ==
    /\ Settled(c) /\ c.op \in ListOps /\ c.resp.kind = "json"
    /\ c.resp.status = "1" /\ c.resp.result.type = "rows"

\* C9: a settled invocation has either returned a value or thrown one error,
\* never both; when a row among those converted cannot be converted the whole
\* operation throws and returns no records, and otherwise it returns one record
\* per converted row; the handler answers with an error exactly when the
\* operation threw.
C9_AllOrNothing ==
    \A s \in DOMAIN calls :
        LET c == calls[s]
        IN  /\ Settled(c) =>
                 /\ c.result.kind \in {"return", "throw"}
                 /\ (c.result.kind = "throw") =>
                       ("value" \notin DOMAIN c.result /\ c.result.message # "")
                 /\ (c.result.kind = "return") => ("message" \notin DOMAIN c.result)
            /\ GotRows(c) =>
                 IF \E i \in 1..Len(RowsProcessed(c)) : Unconvertible(c.op, RowsProcessed(c)[i])
                 THEN c.result.kind = "throw"
                 ELSE /\ c.result.kind = "return"
                      /\ Len(c.result.value.records) = Len(RowsProcessed(c))
            /\ (Settled(c) /\ c.pc = "done") =>
                 ((c.response.kind = "error") <=> (c.result.kind = "throw"))

\* C9 witness: getTransactions has thrown on a payload whose second row cannot
\* be converted while its first can.
C9_Witness ==
    \E s \in DOMAIN calls :
        LET c == calls[s]
        IN  /\ GotRows(c) /\ c.op = "getTransactionHistory"
            /\ c.resp.result.rows = <<RowTransfer, RowBadValue>>
            /\ c.limit = NoNumber
            /\ c.result.kind = "throw"

-----------------------------------------------------------------------------
(* C10 *)

\* the invocation passes every check its method makes before its request
ReachesUpstream(c) ==
    /\ ResolvedNetwork(c) \in NetworkType
    /\ (c.op # "getGasOracle") => c.address \in {LowerAddress, ChecksumAddress}
    /\ (c.op \in {"getAddressBalance", "getENSName"})
          => Credential(ResolvedNetwork(c)) # ""
    /\ (c.op = "getENSName") => ResolvedNetwork(c) = "ethereum"

UpstreamFailed(c) ==
    \/ c.resp.kind = "reject"
    \/ (c.resp.kind = "json" /\ c.resp.status # "1")

\* C10 (as stated): every invocation of an operation issues exactly one
\* outbound request.
C10_ExactlyOneRequest ==
    \A s \in DOMAIN calls :
        Settled(calls[s]) => Len(calls[s].reqs) = 1

\* C10 (amended): an invocation never issues more than one outbound request; it
\* issues exactly one unless it fails its address or network validation before
\* the request or is getENSName off the Ethereum mainnet, in which cases it
\* issues none; and after a failed or non-success response it fails at once,
\* with no second request.
C10_AtMostOneRequestNoRetry ==
    \A s \in DOMAIN calls :
        LET c == calls[s]
        IN  /\ Len(c.reqs) <= 1
            /\ Settled(c) => (Len(c.reqs) = 1 <=> ReachesUpstream(c))
            /\ (Settled(c) /\ UpstreamFailed(c))
                  => (c.result.kind = "throw" /\ Len(c.reqs) = 1)

\* C10 witness: an operation has failed on a non-success response after its
\* single request.
C10_Witness ==
    \E s \in DOMAIN calls :
        LET c == calls[s]
        IN  /\ Settled(c) /\ c.op = "getContractABI"
            /\ c.resp.kind = "json" /\ c.resp.status = "0"
            /\ Len(c.reqs) = 1
            /\ c.result.kind = "throw"

-----------------------------------------------------------------------------
(* C11 *)

\* a tool call that passed its schema and has been answered
Answered(c) ==
    /\ c.via = "tool" /\ c.pc = "done"
    /\ ToolMethod(c.tool) \in Methods
    /\ SchemaAccepts(c.tool, c.address, c.limit)

\* C11: when the resolved network has no usable credential, what the caller
\* gets is the network-unavailable answer carrying the list of the usable
\* networks, whether the network was given explicitly or is the default.
C11_UnavailableCarriesNetworks ==
    \A s \in DOMAIN calls :
        LET c == calls[s]
        IN  (Answered(c) /\ ResolvedNetwork(c) \in NetworkType
                /\ Credential(ResolvedNetwork(c)) = "")
            => /\ c.response.kind = "text"
               /\ c.response.template = "network-unsupported"
               /\ c.response.detail = Join(availableNetworks)

-----------------------------------------------------------------------------
(* C12 *)

\* the text is a whole decimal numeral
NumericText(chars) == chars # << >> /\ \A i \in 1..Len(chars) : IsDigit(chars[i])

\* C12: getTokenTransfers formats each row's value with the decimal count of
\* that same row, and a row whose decimal field is missing or not numeric makes
\* the operation fail instead of yielding a record with a guessed count.
C12_RowDecimalsOrFail ==
    \A s \in DOMAIN calls :
        LET c == calls[s]
        IN  (GotRows(c) /\ c.op = "getTokenTransfers")
            => IF \E i \in 1..Len(RowsProcessed(c)) :
                     ~NumericText(RowsProcessed(c)[i].tokenDecimal)
               THEN c.result.kind = "throw"
               ELSE (c.result.kind = "return")
                     => \A i \in 1..Len(RowsProcessed(c)) :
                           /\ c.result.value.records[i].value.decimals =
                                 DigitsValue(RowsProcessed(c)[i].tokenDecimal)
                           /\ c.result.value.records[i].value.atomic =
                                 DigitsValue(RowsProcessed(c)[i].value)

-----------------------------------------------------------------------------
(* C13 *)

\* a getTransactionHistory invocation that returned records for upstream rows
ReturnedTransactions(c) ==
    GotRows(c) /\ c.op = "getTransactionHistory" /\ c.result.kind = "return"

\* C13: in what getTransactionHistory returns, a row whose recipient is empty
\* or absent has the contract-creation sentinel as its recipient, a row with a
\* non-empty recipient keeps it unchanged, and no record has an empty recipient.
C13_RecipientSentinel ==
    \A s \in DOMAIN calls :
        LET c == calls[s]
        IN  ReturnedTransactions(c)
            => /\ Len(c.result.value.records) = Len(RowsProcessed(c))
               /\ \A i \in 1..Len(RowsProcessed(c)) :
                     LET row == RowsProcessed(c)[i]
                         rec == c.result.value.records[i]
                     IN  /\ row.to \in {"", Undefined} => rec.to = "Contract Creation"
                         /\ row.to \notin {"", Undefined} => rec.to = row.to
                         /\ rec.to \notin {"", Undefined}

\* records were returned for a row with an empty recipient and for a row with
\* a recipient
C13_Witness ==
    \E s \in DOMAIN calls :
        LET c == calls[s]
        IN  /\ ReturnedTransactions(c)
            /\ \E i, j \in 1..Len(RowsProcessed(c)) :
                  /\ RowsProcessed(c)[i].to = ""
                  /\ c.result.value.records[i].to = "Contract Creation"
                  /\ RowsProcessed(c)[j].to = "0xb1"
                  /\ c.result.value.records[j].to = "0xb1"

-----------------------------------------------------------------------------
(* C15 *)

\* C15: in every address-taking operation the address is canonicalized before
\* anything is sent: an invocation with a malformed address has failed without
\* ever issuing a request, and every request issued carries the canonical form
\* of a valid address.
C15_CanonicalBeforeRequest ==
    \A s \in DOMAIN calls :
        LET c == calls[s]
        IN  (Started(c) /\ TakesAddress(c.op))
            => /\ \A i \in 1..Len(c.reqs) :
                     /\ GetAddress(c.address).ok
                     /\ c.reqs[i].address = GetAddress(c.address).value
                     /\ c.reqs[i].address = ChecksumAddress
               /\ ~GetAddress(c.address).ok
                     => /\ c.reqs = << >>
                        /\ c.pc # "await"
                        /\ c.result.kind = "throw"

\* a request went out for an address given in lower case, carrying its
\* checksummed form
C15_Witness ==
    \E s \in DOMAIN calls :
        LET c == calls[s]
        IN  /\ Started(c) /\ c.op = "getTransactionHistory"
            /\ c.address = LowerAddress
            /\ Len(c.reqs) = 1
            /\ c.reqs[1].address = ChecksumAddress

\* an invocation with an address of a wrong checksum has failed with nothing sent
C15_WitnessMalformed ==
    \E s \in DOMAIN calls :
        LET c == calls[s]
        IN  /\ Started(c) /\ TakesAddress(c.op)
            /\ c.address = BadChecksumAddress
            /\ c.reqs = << >> /\ c.result.kind = "throw"

-----------------------------------------------------------------------------
(* C16 *)

\* n is an entry of the server's availableNetworks
Listed(n) == \E i \in 1..Len(availableNetworks) : availableNetworks[i] = n

\* C16: once startup has succeeded, in every state, for every network n: n is
\* in availableNetworks exactly when isNetworkSupported(n) is true, exactly
\* when the credential of n is non-empty; and availableNetworks is not empty.
C16_ListPredicateCredentialAgree ==
    phase = "running"
    => /\ \A n \in NetworkType :
             /\ Listed(n) <=> IsNetworkSupported(n)
             /\ IsNetworkSupported(n) <=> (Credential(n) # "")
       /\ \A i \in 1..Len(availableNetworks) : availableNetworks[i] \in NetworkType
       /\ Len(availableNetworks) > 0

\* the server runs with a credential for some networks and none for another,
\* and an invocation has already been answered
C16_Witness ==
    /\ phase = "running"
    /\ \E n \in NetworkType : Credential(n) = "" /\ ~Listed(n) /\ ~IsNetworkSupported(n)
    /\ \E n \in NetworkType : Credential(n) # "" /\ Listed(n) /\ IsNetworkSupported(n)
    /\ \E s \in DOMAIN calls : calls[s].pc = "done"

-----------------------------------------------------------------------------
(* C14 *)

\* what the invocation yields when nothing else runs: the outcome of its own
\* synchronous prefix, or of its own request and the response to that request
AloneResult(c) ==
    IF c.reqs = << >> THEN MethodBegin(c.op, c.address, c.limit, c.network)
    ELSE MethodEnd(c.op, c.reqs[1], c.limit, c.network, c.resp)

\* the request of an invocation goes to the network the invocation resolves to,
\* with that network's credential, and is the one its own arguments produce
OwnRequest(c) ==
    Len(c.reqs) >= 1
    => /\ Len(c.reqs) = 1
       /\ ResolvedNetwork(c) \in NetworkType
       /\ NetworkOfRequest(c.reqs[1]) = ResolvedNetwork(c)
       /\ c.reqs[1].apikey = Credential(ResolvedNetwork(c))
       /\ MethodBegin(c.op, c.address, c.limit, c.network) = Send(c.reqs[1])

\* the long-lived state is what startup made of the environment
StartupStateKept ==
    /\ apiKeys = ApiKeysOf(env)
    /\ defaultNetwork = DefaultNetworkOf(env)
    /\ availableNetworks = AvailableNetworksOf(ApiKeysOf(env))
    /\ etherscanService = NewEtherscanService(ApiKeysOf(env), DefaultNetworkOf(env))
    /\ etherscanService.networkConfigs = NETWORK_CONFIGS

\* C14: with two invocations in flight at once, in every interleaving of their
\* request and response steps, each one sends the request and yields the result
\* it would alone, and the credential set, the network config table, the
\* provider table and the default network stay as startup left them.
C14_NoInterference ==
    phase = "running"
    => /\ StartupStateKept
       /\ \A s \in DOMAIN calls :
             LET c == calls[s]
             IN  Started(c)
                 => /\ OwnRequest(c)
                    /\ Settled(c) => c.result = AloneResult(c)
                    /\ (c.via = "tool" /\ c.pc = "done")
                          => c.response = HandlerEnd(c.tool, c.address, c.network,
                                                     AloneResult(c))

\* one invocation awaits ethereum while another, of a different operation, has
\* returned from base
C14_Witness ==
    /\ phase = "running"
    /\ calls[1].pc = "await" /\ calls[1].op = "getAddressBalance"
    /\ NetworkOfRequest(calls[1].reqs[1]) = "ethereum"
    /\ 2 \in DOMAIN calls
    /\ calls[2].pc = "svcdone" /\ calls[2].op = "getTokenTransfers"
    /\ NetworkOfRequest(calls[2].reqs[1]) = "base"
    /\ calls[2].result.kind = "return"
    /\ Len(calls[2].result.value.records) > 0

====
